---- MODULE Spec2Model ----
(***************************************************************************)
(* Model of the two placement planners of the proxmox_upgrade collection:  *)
(*   plugins/filter/load_balance.py   FilterModule.load_balance_plan       *)
(*   plugins/filter/migration_plan.py FilterModule._migration_plan         *)
(*                                                                         *)
(* Node identifiers are modelled by the integers of NodeIds; the integer   *)
(* order stands for the lexicographic order of the identifier strings      *)
(* ("node1" < "node2" < ...), the only order sorted() ever uses on them.   *)
(* A VM's name is its position in the generated VM list, so names are      *)
(* unique, as the planners require of their callers.                       *)
(* A Python dict is modelled by a function; where the code iterates over a *)
(* dict, the model iterates over the sequence of keys in insertion order.  *)
(***************************************************************************)
EXTENDS Integers, Sequences, FiniteSets, TLC

\* ------------------------------------------------------------------ bounds
\* Longest VM list handed to load_balance_plan.
MaxVMs == 4

\* The node identifiers of the cluster.
NodeIds == {1, 2, 3}
NodeStatuses == {"online", "offline"}
VMStatuses == {"running", "stopped"}

VARIABLES
    pc,                 \* position of the running call
    vms,                \* input: the VM list
    nodes,              \* input: the node list
    online_nodes,       \* load_balance_plan: ids of the online nodes, input order
    vm_count_per_node,  \* load_balance_plan: current VM count per online node
    target_distribution,\* load_balance_plan: target VM count per online node
    overloaded_nodes,   \* load_balance_plan: sequence of <<node, excess>>
    underloaded_nodes,  \* load_balance_plan: sequence of <<node, deficit>>
    overload_idx,       \* load_balance_plan: index into overloaded_nodes (0-based)
    underload_idx,      \* load_balance_plan: index into underloaded_nodes (0-based)
    migration_plan,     \* load_balance_plan: vm name -> [source_node, target_node]
    node_to_upgrade,    \* input of _migration_plan: the node to evacuate
    proxmox_vms,        \* _migration_plan: the candidate VMs, sorted once built
    proxmox_nodes,      \* _migration_plan: working resource state of the target nodes
    vm_idx,             \* _migration_plan: VMs of proxmox_vms already visited
    migrated_vms,       \* _migration_plan: vm name -> target node
    nodes_read,         \* _migration_plan: the node descriptors have been read
    result,             \* what the caller got: nothing yet, a plan, or an error
    first_outcome       \* what the caller got from an earlier, identical call

lbvars == <<online_nodes, vm_count_per_node, target_distribution,
            overloaded_nodes, underloaded_nodes, overload_idx, underload_idx,
            migration_plan>>

mpvars == <<proxmox_vms, proxmox_nodes, vm_idx, migrated_vms, nodes_read>>

vars == <<pc, vms, nodes, node_to_upgrade, lbvars, mpvars, result, first_outcome>>

\* ------------------------------------------------------------- generic helpers
Range(s) == {s[i] : i \in DOMAIN s}

Min(a, b) == IF a <= b THEN a ELSE b

\* The empty dict.
EmptyDict == [k \in {} |-> 0]

\* d[k] = v on a dict: insert or overwrite.
DictSet(d, k, v) == [x \in (DOMAIN d) \cup {k} |-> IF x = k THEN v ELSE d[x]]

\* Sequences over S of length at most n.
SeqsUpTo(S, n) == UNION {[1..k -> S] : k \in 0..n}

\* Sequences without repetition.
NoDup(s) == \A i, j \in DOMAIN s : i # j => s[i] # s[j]

\* sum(f[x] for x in S)
RECURSIVE SumOver(_, _)
SumOver(f, S) ==
    IF S = {} THEN 0
    ELSE LET x == CHOOSE y \in S : TRUE IN f[x] + SumOver(f, S \ {x})

\* list.sort(key=lambda x: x[1], reverse=True): Python's sort is stable, and
\* reverse=True keeps the original order of elements with equal keys.
RECURSIVE InsertDescBySecond(_, _)
InsertDescBySecond(sorted, x) ==
    IF sorted = <<>> THEN <<x>>
    ELSE IF Head(sorted)[2] >= x[2]
         THEN <<Head(sorted)>> \o InsertDescBySecond(Tail(sorted), x)
         ELSE <<x>> \o sorted

RECURSIVE SortDescBySecond(_)
SortDescBySecond(s) ==
    IF s = <<>> THEN <<>>
    ELSE InsertDescBySecond(SortDescBySecond(SubSeq(s, 1, Len(s) - 1)), s[Len(s)])

\* sorted(list of node ids): ascending.
RECURSIVE SortedAsc(_)
SortedAsc(s) ==
    IF s = <<>> THEN <<>>
    ELSE LET m == CHOOSE i \in DOMAIN s : \A j \in DOMAIN s : s[i] <= s[j]
         IN <<s[m]>> \o SortedAsc(SubSeq(s, 1, m - 1) \o SubSeq(s, m + 1, Len(s)))

\* 0-based position of x in s (x occurs in s).
IndexOf(s, x) == (CHOOSE i \in DOMAIN s : s[i] = x) - 1

\* ------------------------------------------------------ load_balance_plan
\* Variant of OnlineNodes that forgets the status test.
OnlineNodes_AnyStatus(ns) == [i \in 1..Len(ns) |-> ns[i].node]

\* Variant of OnlineNodes that keeps the nodes that are not online.
OnlineNodes_Inverted(ns) ==
    LET sel == SelectSeq(ns, LAMBDA n : n.status # "online")
    IN [i \in 1..Len(sel) |-> sel[i].node]

\* online_nodes = [node["node"] for node in nodes if node.get("status") == "online"]
OnlineNodes(ns) ==
    LET sel == SelectSeq(ns, LAMBDA n : n.status = "online")
    IN [i \in 1..Len(sel) |-> sel[i].node]

\* if len(online_nodes) < 2: return {}
TooFewOnline(on) == Len(on) < 2

\* vm_count_per_node: 0 for every online node, +1 for every VM whose node is
\* one of the online nodes.
VmCountPerNode(vs, on) ==
    [n \in Range(on) |-> Cardinality({i \in DOMAIN vs : vs[i].node = n})]

\* total_vms = len(vms)
TotalVms(vs, on) == Len(vs)

TargetDistribution_ListOrder(vs, on) ==
    LET total_vms == TotalVms(vs, on)
        target_vms_per_node == total_vms \div Len(on)
        remainder == total_vms % Len(on)
    IN [n \in Range(on) |->
           target_vms_per_node + (IF IndexOf(on, n) < remainder THEN 1 ELSE 0)]

\* target_distribution: base count, plus one for the first `remainder` nodes
\* of sorted(online_nodes).
TargetDistribution(vs, on) ==
    LET total_vms == TotalVms(vs, on)
        target_vms_per_node == total_vms \div Len(on)
        remainder == total_vms % Len(on)
        srt == SortedAsc(on)
    IN [n \in Range(on) |->
           target_vms_per_node + (IF IndexOf(srt, n) < remainder THEN 1 ELSE 0)]

\* overloaded_nodes before sorting: (node, current - target) for the nodes with
\* current > target, in the iteration order of vm_count_per_node.
OverloadedNodes(on, cnt, tgt) ==
    SelectSeq([i \in DOMAIN on |-> <<on[i], cnt[on[i]] - tgt[on[i]]>>],
              LAMBDA p : p[2] > 0)

\* underloaded_nodes before sorting: (node, target - current) for the nodes
\* with current < target.
UnderloadedNodes(on, cnt, tgt) ==
    SelectSeq([i \in DOMAIN on |-> <<on[i], tgt[on[i]] - cnt[on[i]]>>],
              LAMBDA p : p[2] > 0)

\* Variant of MigrationsNeeded that takes the larger of the two.
MigrationsNeeded_Max(excess, deficit) == IF excess >= deficit THEN excess ELSE deficit

\* migrations_needed = min(excess, deficit)
MigrationsNeeded(excess, deficit) == Min(excess, deficit)

RECURSIVE ClaimVms_NoCheck(_, _, _, _, _, _)
ClaimVms_NoCheck(plan, migrated, needed, vms_on_source, source_node, target_node) ==
    IF vms_on_source = <<>> \/ migrated >= needed
    THEN [migration_plan |-> plan, migrated |-> migrated]
    ELSE ClaimVms_NoCheck(DictSet(plan, Head(vms_on_source).name,
                                  [source_node |-> source_node,
                                   target_node |-> target_node]),
                          migrated + 1, needed, Tail(vms_on_source),
                          source_node, target_node)

\* The inner for loop over vms_on_source: claim VMs not yet in the plan until
\* migrations_needed have been claimed.  Yields the plan and `migrated`.
RECURSIVE ClaimVms(_, _, _, _, _, _)
ClaimVms(plan, migrated, needed, vms_on_source, source_node, target_node) ==
    IF vms_on_source = <<>> \/ migrated >= needed
    THEN [migration_plan |-> plan, migrated |-> migrated]
    ELSE LET vm_name == Head(vms_on_source).name
         IN IF vm_name \notin DOMAIN plan
            THEN ClaimVms(DictSet(plan, vm_name,
                                  [source_node |-> source_node,
                                   target_node |-> target_node]),
                          migrated + 1, needed, Tail(vms_on_source),
                          source_node, target_node)
            ELSE ClaimVms(plan, migrated, needed, Tail(vms_on_source),
                          source_node, target_node)

\* while overload_idx < len(overloaded_nodes) and underload_idx < len(underloaded_nodes)
LBLoopCond(st) ==
    /\ st.overload_idx < Len(st.overloaded_nodes)
    /\ st.underload_idx < Len(st.underloaded_nodes)

\* One iteration of the matching loop on the loop state st.
LBStep(vs, st) ==
    LET source_node == st.overloaded_nodes[st.overload_idx + 1][1]
        excess == st.overloaded_nodes[st.overload_idx + 1][2]
        target_node == st.underloaded_nodes[st.underload_idx + 1][1]
        deficit == st.underloaded_nodes[st.underload_idx + 1][2]
        vms_on_source == SelectSeq(vs, LAMBDA vm : vm.node = source_node)
        migrations_needed == MigrationsNeeded(excess, deficit)
        claimed == ClaimVms(st.migration_plan, 0, migrations_needed,
                            vms_on_source, source_node, target_node)
        remaining_excess == excess - claimed.migrated
        remaining_deficit == deficit - claimed.migrated
    IN [overloaded_nodes |->
            IF remaining_excess = 0 THEN st.overloaded_nodes
            ELSE [st.overloaded_nodes EXCEPT
                    ![st.overload_idx + 1] = <<source_node, remaining_excess>>],
        underloaded_nodes |->
            IF remaining_deficit = 0 THEN st.underloaded_nodes
            ELSE [st.underloaded_nodes EXCEPT
                    ![st.underload_idx + 1] = <<target_node, remaining_deficit>>],
        overload_idx |->
            IF remaining_excess = 0 THEN st.overload_idx + 1 ELSE st.overload_idx,
        underload_idx |->
            IF remaining_deficit = 0 THEN st.underload_idx + 1 ELSE st.underload_idx,
        migration_plan |-> claimed.migration_plan]

LBLoopEntry_KeepsPlan(vs, on) ==
    LET cnt == VmCountPerNode(vs, on)
        tgt == TargetDistribution(vs, on)
    IN [overloaded_nodes |-> SortDescBySecond(OverloadedNodes(on, cnt, tgt)),
        underloaded_nodes |-> SortDescBySecond(UnderloadedNodes(on, cnt, tgt)),
        overload_idx |-> 0,
        underload_idx |-> 0,
        migration_plan |-> migration_plan]

\* The loop state on entry to the matching loop.
LBLoopEntry(vs, on) ==
    LET cnt == VmCountPerNode(vs, on)
        tgt == TargetDistribution(vs, on)
    IN [overloaded_nodes |-> SortDescBySecond(OverloadedNodes(on, cnt, tgt)),
        underloaded_nodes |-> SortDescBySecond(UnderloadedNodes(on, cnt, tgt)),
        overload_idx |-> 0,
        underload_idx |-> 0,
        migration_plan |-> EmptyDict]

\* The matching loop run to its end.
RECURSIVE LBRunLoop(_, _)
LBRunLoop(vs, st) ==
    IF LBLoopCond(st) THEN LBRunLoop(vs, LBStep(vs, st)) ELSE st.migration_plan

\* load_balance_plan(vms, nodes) as a function of its inputs.
LoadBalancePlan(vs, ns) ==
    IF vs = <<>> \/ ns = <<>> THEN EmptyDict
    ELSE IF TooFewOnline(OnlineNodes(ns)) THEN EmptyDict
    ELSE LBRunLoop(vs, LBLoopEntry(vs, OnlineNodes(ns)))

\* The loop state held in the variables.
LBState ==
    [overloaded_nodes |-> overloaded_nodes,
     underloaded_nodes |-> underloaded_nodes,
     overload_idx |-> overload_idx,
     underload_idx |-> underload_idx,
     migration_plan |-> migration_plan]

\* Values of `result`.
NoResult == [kind |-> "none"]
PlanResult(plan) == [kind |-> "plan", plan |-> plan]

LBSetState(st) ==
    /\ overloaded_nodes' = st.overloaded_nodes
    /\ underloaded_nodes' = st.underloaded_nodes
    /\ overload_idx' = st.overload_idx
    /\ underload_idx' = st.underload_idx
    /\ migration_plan' = st.migration_plan

LBVMs_SharedNames ==
    {[i \in DOMAIN f |-> [name |-> 1, node |-> f[i].node, status |-> f[i].status]] :
        f \in SeqsUpTo([node : NodeIds, status : VMStatuses], MaxVMs)}

\* Inputs of load_balance_plan: VM lists and node lists.
LBVMs ==
    {[i \in DOMAIN f |-> [name |-> i, node |-> f[i].node, status |-> f[i].status]] :
        f \in SeqsUpTo([node : NodeIds, status : VMStatuses], MaxVMs)}

LBNodes ==
    {ns \in SeqsUpTo([node : NodeIds, status : NodeStatuses], Cardinality(NodeIds)) :
        \A i, j \in DOMAIN ns : i # j => ns[i].node # ns[j].node}

InitLB ==
    /\ pc = "lb_call"
    /\ vms \in LBVMs
    /\ nodes \in LBNodes
    /\ online_nodes = <<>>
    /\ vm_count_per_node = EmptyDict
    /\ target_distribution = EmptyDict
    /\ overloaded_nodes = <<>>
    /\ underloaded_nodes = <<>>
    /\ overload_idx = 0
    /\ underload_idx = 0
    /\ migration_plan = EmptyDict
    /\ node_to_upgrade = 1
    /\ proxmox_vms = <<>>
    /\ proxmox_nodes = <<>>
    /\ vm_idx = 0
    /\ migrated_vms = EmptyDict
    /\ nodes_read = FALSE
    /\ result = NoResult
    /\ first_outcome = NoResult

\* Lines 92-102: the early returns of load_balance_plan.
LBReturnEmpty ==
    /\ pc = "lb_call"
    /\ vms = <<>> \/ nodes = <<>> \/ TooFewOnline(OnlineNodes(nodes))
    /\ pc' = "lb_done"
    /\ online_nodes' = IF vms = <<>> \/ nodes = <<>> THEN <<>> ELSE OnlineNodes(nodes)
    /\ result' = PlanResult(EmptyDict)
    /\ UNCHANGED <<first_outcome, vms, nodes, vm_count_per_node, target_distribution,
                   overloaded_nodes, underloaded_nodes, overload_idx,
                   underload_idx, migration_plan, node_to_upgrade, mpvars>>

\* Lines 104-150: counting, target distribution, classification and sorting.
LBStart ==
    /\ pc = "lb_call"
    /\ vms # <<>> /\ nodes # <<>>
    /\ ~TooFewOnline(OnlineNodes(nodes))
    /\ pc' = "lb_loop"
    /\ online_nodes' = OnlineNodes(nodes)
    /\ vm_count_per_node' = VmCountPerNode(vms, OnlineNodes(nodes))
    /\ target_distribution' = TargetDistribution(vms, OnlineNodes(nodes))
    /\ LBSetState(LBLoopEntry(vms, OnlineNodes(nodes)))
    /\ UNCHANGED <<first_outcome, vms, nodes, node_to_upgrade, mpvars, result>>

\* Lines 152-188: one iteration of the matching loop.
LBIterate ==
    /\ pc = "lb_loop"
    /\ LBLoopCond(LBState)
    /\ LBSetState(LBStep(vms, LBState))
    /\ UNCHANGED <<first_outcome, pc, vms, nodes, online_nodes, vm_count_per_node,
                   target_distribution, node_to_upgrade, mpvars, result>>

\* Line 190: return migration_plan.
LBReturn ==
    /\ pc = "lb_loop"
    /\ ~LBLoopCond(LBState)
    /\ pc' = "lb_done"
    /\ result' = PlanResult(migration_plan)
    /\ UNCHANGED <<first_outcome, vms, nodes, node_to_upgrade, lbvars, mpvars>>

NextLB == LBReturnEmpty \/ LBStart \/ LBIterate \/ LBReturn

SpecLB == InitLB /\ [][NextLB]_vars

\* -------------------------------------------------------- _migration_plan
\* Longest VM list handed to _migration_plan.
MaxEvacVMs == 2

\* best_fit_node = None
NoNode == 0

\* cpu_weight = 1, mem_weight = 1
cpu_weight == 1
mem_weight == 1

\* available_resources_weight = 1, overcommitment_weight = 1.25
available_resources_weight == 1
overcommitment_weight == <<5, 4>>

\* 1 / 0.0001, the floor of the cpu need in max(vm["cpu"], 0.0001)
CpuFloorInverse == 10000

\* Scores are floats in the code; here they are exact fractions <<n, d>> with
\* d > 0.  On the inputs generated below every quotient the code forms is
\* either a multiple of 1/2 or an integer multiple of 10000, so the float
\* arithmetic of the code is exact and compares as the fractions do.
RatAdd(a, b) == <<a[1] * b[2] + b[1] * a[2], a[2] * b[2]>>
RatSub(a, b) == <<a[1] * b[2] - b[1] * a[2], a[2] * b[2]>>
RatMul(a, b) == <<a[1] * b[1], a[2] * b[2]>>
RatScale(a, k) == <<a[1] * k, a[2]>>
RatGT_OrEqual(a, b) == a[1] * b[2] >= b[1] * a[2]

RatGT(a, b) == a[1] * b[2] > b[1] * a[2]

\* sum(vm[field] for vm in list)
RECURSIVE SumMaxCpu(_)
SumMaxCpu(list) == IF list = <<>> THEN 0 ELSE Head(list).maxcpu + SumMaxCpu(Tail(list))

RECURSIVE SumMaxMem(_)
SumMaxMem(list) == IF list = <<>> THEN 0 ELSE Head(list).maxmem + SumMaxMem(Tail(list))

\* _vm_result_to_dict
VmResultToDict(vm_result) ==
    [name |-> vm_result.name,
     cpu |-> vm_result.cpu,
     maxcpu |-> vm_result.maxcpu,
     mem |-> vm_result.mem,
     maxmem |-> vm_result.maxmem,
     node |-> vm_result.node]

\* Variant of NodeCanHandleVm that forgets the two maxima.
NodeCanHandleVm_NoMaxima(node_resources, vm) ==
    /\ node_resources.available_cpu >= vm.cpu
    /\ node_resources.available_mem >= vm.mem

NodeCanHandleVm_NoAvailable(node_resources, vm) ==
    /\ node_resources.maxcpu >= vm.maxcpu
    /\ node_resources.maxmem >= vm.maxmem

\* _node_can_handle_vm
NodeCanHandleVm(node_resources, vm) ==
    /\ node_resources.available_cpu >= vm.cpu
    /\ node_resources.available_mem >= vm.mem
    /\ node_resources.maxcpu >= vm.maxcpu
    /\ node_resources.maxmem >= vm.maxmem

\* _calculate_overcommitment: the pair (cpu_overcommitment, mem_overcommitment).
\* The generated nodes have maxcpu >= 1 and maxmem >= 1, so neither division
\* is a division by zero.
CalculateOvercommitment(node_resources) ==
    LET total_allocated_cpu == SumMaxCpu(node_resources.vms)
        total_allocated_mem == SumMaxMem(node_resources.vms)
    IN << <<total_allocated_cpu, node_resources.maxcpu>>,
          <<total_allocated_mem, node_resources.maxmem>> >>

\* any(vm["node"] == node_to_upgrade for vm in vms)
AnyVmOnNode(vs, ntu) == \E i \in DOMAIN vs : vs[i].node = ntu

\* Variant of ProxmoxVms that forgets the node test.
ProxmoxVms_AnyNode(vs, ntu) ==
    LET sel == SelectSeq(vs, LAMBDA vm : vm.status # "stopped")
    IN [i \in 1..Len(sel) |-> VmResultToDict(sel[i])]

\* Variant of ProxmoxVms that forgets the status test.
ProxmoxVms_AnyStatus(vs, ntu) ==
    LET sel == SelectSeq(vs, LAMBDA vm : vm.node = ntu)
    IN [i \in 1..Len(sel) |-> VmResultToDict(sel[i])]

\* proxmox_vms before sorting: the VMs on node_to_upgrade that are not stopped.
ProxmoxVms(vs, ntu) ==
    LET sel == SelectSeq(vs, LAMBDA vm : vm.node = ntu /\ vm.status # "stopped")
    IN [i \in 1..Len(sel) |-> VmResultToDict(sel[i])]

\* Variant of ProxmoxNodes that keeps the node to upgrade.
ProxmoxNodes_KeepUpgraded(ns, pvms, ntu) ==
    [i \in 1..Len(ns) |->
        [node |-> ns[i].node,
         available_cpu |-> ns[i].maxcpu - ns[i].cpu,
         available_mem |-> ns[i].maxmem - ns[i].mem,
         maxcpu |-> ns[i].maxcpu,
         maxmem |-> ns[i].maxmem,
         vms |-> SelectSeq(pvms, LAMBDA vm : vm.node = ns[i].node)]]

\* proxmox_nodes: the dict of working resource states, as the sequence of its
\* items in insertion order, the key kept in the field `node`.
ProxmoxNodes(ns, pvms, ntu) ==
    LET sel == SelectSeq(ns, LAMBDA node : node.node # ntu)
    IN [i \in 1..Len(sel) |->
           [node |-> sel[i].node,
            available_cpu |-> sel[i].maxcpu - sel[i].cpu,
            available_mem |-> sel[i].maxmem - sel[i].mem,
            maxcpu |-> sel[i].maxcpu,
            maxmem |-> sel[i].maxmem,
            vms |-> SelectSeq(pvms, LAMBDA vm : vm.node = sel[i].node)]]

\* The sort key (vm["mem"], vm["cpu"]) compared as Python compares tuples.
VmKeyGE_CpuFirst(x, y) == x.cpu > y.cpu \/ (x.cpu = y.cpu /\ x.mem >= y.mem)

VmKeyGE(x, y) == x.mem > y.mem \/ (x.mem = y.mem /\ x.cpu >= y.cpu)

\* proxmox_vms.sort(key=lambda vm: (vm["mem"], vm["cpu"]), reverse=True), stable.
RECURSIVE InsertVmDesc(_, _)
InsertVmDesc(sorted, vm) ==
    IF sorted = <<>> THEN <<vm>>
    ELSE IF VmKeyGE(Head(sorted), vm)
         THEN <<Head(sorted)>> \o InsertVmDesc(Tail(sorted), vm)
         ELSE <<vm>> \o sorted

RECURSIVE SortVmsDesc(_)
SortVmsDesc(list) ==
    IF list = <<>> THEN <<>>
    ELSE InsertVmDesc(SortVmsDesc(SubSeq(list, 1, Len(list) - 1)), list[Len(list)])

\* combined_score of a node for a VM (lines 178-194).
CombinedScore(resources, vm) ==
    LET over == CalculateOvercommitment(resources)
        overcommitment_score ==
            RatAdd(RatScale(over[1], cpu_weight), RatScale(over[2], mem_weight))
        available_cpu ==
            IF vm.cpu >= 1 THEN <<resources.available_cpu, vm.cpu>>
            ELSE <<resources.available_cpu * CpuFloorInverse, 1>>
        available_mem ==
            <<resources.available_mem, IF vm.mem >= 1 THEN vm.mem ELSE 1>>
        available_resource_score ==
            RatAdd(RatScale(available_cpu, cpu_weight), RatScale(available_mem, mem_weight))
    IN RatSub(RatScale(available_resource_score, available_resources_weight),
              RatMul(overcommitment_score, overcommitment_weight))

\* The inner for loop over proxmox_nodes.items() (lines 170-198), from item i
\* on, with the best node and score found so far.
RECURSIVE ScanNodes(_, _, _, _, _)
ScanNodes(pnodes, vm, i, best_fit_node, best_combined_score) ==
    IF i > Len(pnodes) THEN best_fit_node
    ELSE IF /\ NodeCanHandleVm(pnodes[i], vm)
            /\ RatGT(CombinedScore(pnodes[i], vm), best_combined_score)
         THEN ScanNodes(pnodes, vm, i + 1, pnodes[i].node, CombinedScore(pnodes[i], vm))
         ELSE ScanNodes(pnodes, vm, i + 1, best_fit_node, best_combined_score)

BestFitNode_FirstFit(pnodes, vm) ==
    LET ok == {k \in DOMAIN pnodes :
                  /\ NodeCanHandleVm(pnodes[k], vm)
                  /\ RatGT(CombinedScore(pnodes[k], vm), <<0, 1>>)}
    IN IF ok = {} THEN NoNode
       ELSE pnodes[CHOOSE k \in ok : \A m \in ok : k <= m].node

BestFitNode(pnodes, vm) == ScanNodes(pnodes, vm, 1, NoNode, <<0, 1>>)

Deduct_Nothing(pnodes, best_fit_node, vm) == pnodes

Deduct_EveryNode(pnodes, best_fit_node, vm) ==
    [i \in DOMAIN pnodes |->
        [pnodes[i] EXCEPT !.available_cpu = @ - vm.cpu,
                          !.available_mem = @ - vm.mem]]

\* Lines 205-206: deduct the VM's cpu and mem from the chosen node.
Deduct(pnodes, best_fit_node, vm) ==
    [i \in DOMAIN pnodes |->
        IF pnodes[i].node = best_fit_node
        THEN [pnodes[i] EXCEPT !.available_cpu = @ - vm.cpu,
                               !.available_mem = @ - vm.mem]
        ELSE pnodes[i]]

\* raise AnsibleFilterError(f"VM {name} cannot be migrated. Reasons: CPU: needed
\* {cpu}, Mem: needed {mem})")
ErrorResult_ReturnsPartial(vm) == PlanResult(migrated_vms)

ErrorResult(vm) ==
    [kind |-> "AnsibleFilterError", vm |-> vm.name, cpu |-> vm.cpu, mem |-> vm.mem]

\* Resource figures of a VM to evacuate: cpu, maxcpu, mem, maxmem.
CandidateProfiles ==
    {[cpu |-> 1, maxcpu |-> 1, mem |-> 1, maxmem |-> 1],
     [cpu |-> 1, maxcpu |-> 2, mem |-> 1, maxmem |-> 2],
     [cpu |-> 2, maxcpu |-> 2, mem |-> 1, maxmem |-> 2],
     [cpu |-> 1, maxcpu |-> 2, mem |-> 2, maxmem |-> 2],
     [cpu |-> 2, maxcpu |-> 2, mem |-> 2, maxmem |-> 2],
     [cpu |-> 0, maxcpu |-> 1, mem |-> 0, maxmem |-> 1],
     [cpu |-> 0, maxcpu |-> 1, mem |-> 1, maxmem |-> 1],
     [cpu |-> 1, maxcpu |-> 3, mem |-> 1, maxmem |-> 1],
     [cpu |-> 1, maxcpu |-> 1, mem |-> 1, maxmem |-> 3]}

\* Resource figures of a VM the planner does not place (stopped, or hosted on
\* another node): the planner reads none of them.
BystanderProfile == [cpu |-> 1, maxcpu |-> 1, mem |-> 1, maxmem |-> 1]

\* Resource figures of a target node: used cpu, maxcpu, used mem, maxmem.
NodeProfiles ==
    {[cpu |-> 0, maxcpu |-> 2, mem |-> 0, maxmem |-> 2],
     [cpu |-> 1, maxcpu |-> 2, mem |-> 1, maxmem |-> 2],
     [cpu |-> 2, maxcpu |-> 2, mem |-> 2, maxmem |-> 2],
     [cpu |-> 1, maxcpu |-> 2, mem |-> 0, maxmem |-> 2],
     [cpu |-> 0, maxcpu |-> 2, mem |-> 1, maxmem |-> 2],
     [cpu |-> 0, maxcpu |-> 1, mem |-> 0, maxmem |-> 1],
     [cpu |-> 0, maxcpu |-> 1, mem |-> 0, maxmem |-> 2],
     [cpu |-> 0, maxcpu |-> 2, mem |-> 0, maxmem |-> 1]}

\* Resource figures of the evacuated node: the planner reads none of them.
EvacuatedProfile == [cpu |-> 1, maxcpu |-> 2, mem |-> 1, maxmem |-> 2]

\* The node to evacuate.  _migration_plan only compares node identifiers for
\* equality, so one choice stands for all.
EvacuatedNode == CHOOSE n \in NodeIds : \A m \in NodeIds : n <= m

\* The node hosting the VMs that are not on the evacuated node.
OtherHost == CHOOSE n \in NodeIds \ {EvacuatedNode} : \A m \in NodeIds \ {EvacuatedNode} : n <= m

WithProfile(head, p) ==
    head @@ [cpu |-> p.cpu, maxcpu |-> p.maxcpu, mem |-> p.mem, maxmem |-> p.maxmem]

VMChoices ==
    {WithProfile([node |-> EvacuatedNode, status |-> "running"], p) : p \in CandidateProfiles}
    \cup {WithProfile([node |-> EvacuatedNode, status |-> "stopped"], BystanderProfile)}
    \cup {WithProfile([node |-> OtherHost, status |-> st], BystanderProfile) : st \in VMStatuses}

NodeChoices ==
    {WithProfile([node |-> EvacuatedNode], EvacuatedProfile)}
    \cup {WithProfile([node |-> n], p) : n \in NodeIds \ {EvacuatedNode}, p \in NodeProfiles}

\* Inputs of _migration_plan.
MPVMs ==
    {[i \in DOMAIN f |-> [name |-> i] @@ f[i]] : f \in SeqsUpTo(VMChoices, MaxEvacVMs)}

MPNodes ==
    {ns \in SeqsUpTo(NodeChoices, Cardinality(NodeIds)) :
        \A i, j \in DOMAIN ns : i # j => ns[i].node # ns[j].node}

InitMP ==
    /\ pc = "mp_call"
    /\ vms \in MPVMs
    /\ nodes \in MPNodes
    /\ node_to_upgrade = EvacuatedNode
    /\ online_nodes = <<>>
    /\ vm_count_per_node = EmptyDict
    /\ target_distribution = EmptyDict
    /\ overloaded_nodes = <<>>
    /\ underloaded_nodes = <<>>
    /\ overload_idx = 0
    /\ underload_idx = 0
    /\ migration_plan = EmptyDict
    /\ proxmox_vms = <<>>
    /\ proxmox_nodes = <<>>
    /\ vm_idx = 0
    /\ migrated_vms = EmptyDict
    /\ nodes_read = FALSE
    /\ result = NoResult
    /\ first_outcome = NoResult

\* Lines 134-138, 155: proxmox_vms is a new list of new dicts, so sort() reorders
\* that list; the list the caller passed keeps its order.
VmsAfterSort_InPlace(vs) == SortVmsDesc(vs)

VmsAfterSort(vs) == vs

\* Lines 141-151, 205-206: proxmox_nodes holds new dicts, so the deduction
\* changes those; the node descriptors the caller passed keep their values.
NodesAfterDeduct(ns, best_fit_node, vm) == ns

\* Lines 129-130: no VM on the node to upgrade, return {}.
MPReturnEmpty ==
    /\ pc = "mp_call"
    /\ ~AnyVmOnNode(vms, node_to_upgrade)
    /\ pc' = "mp_done"
    /\ result' = PlanResult(EmptyDict)
    /\ UNCHANGED <<first_outcome, vms, nodes, node_to_upgrade, lbvars, mpvars>>

\* Lines 134-166: candidates, working resource state, sort.
MPStart ==
    /\ pc = "mp_call"
    /\ AnyVmOnNode(vms, node_to_upgrade)
    /\ pc' = "mp_loop"
    /\ proxmox_vms' = SortVmsDesc(ProxmoxVms(vms, node_to_upgrade))
    /\ proxmox_nodes' = ProxmoxNodes(nodes, ProxmoxVms(vms, node_to_upgrade), node_to_upgrade)
    /\ nodes_read' = TRUE
    /\ vm_idx' = 0
    /\ migrated_vms' = EmptyDict
    /\ vms' = VmsAfterSort(vms)
    /\ UNCHANGED <<first_outcome, nodes, node_to_upgrade, lbvars, result>>

\* Lines 169-206: one VM of the for loop for which a node is found.
MPPlace ==
    /\ pc = "mp_loop"
    /\ vm_idx < Len(proxmox_vms)
    /\ LET vm == proxmox_vms[vm_idx + 1]
           best_fit_node == BestFitNode(proxmox_nodes, vm)
       IN /\ best_fit_node # NoNode
          /\ migrated_vms' = DictSet(migrated_vms, vm.name, best_fit_node)
          /\ proxmox_nodes' = Deduct(proxmox_nodes, best_fit_node, vm)
          /\ nodes' = NodesAfterDeduct(nodes, best_fit_node, vm)
    /\ vm_idx' = vm_idx + 1
    /\ UNCHANGED <<first_outcome, pc, vms, node_to_upgrade, lbvars, proxmox_vms,
                   nodes_read, result>>

\* Lines 169-198, 207-212: one VM of the for loop for which no node is found.
MPFail ==
    /\ pc = "mp_loop"
    /\ vm_idx < Len(proxmox_vms)
    /\ BestFitNode(proxmox_nodes, proxmox_vms[vm_idx + 1]) = NoNode
    /\ pc' = "mp_failed"
    /\ result' = ErrorResult(proxmox_vms[vm_idx + 1])
    /\ UNCHANGED <<first_outcome, vms, nodes, node_to_upgrade, lbvars, mpvars>>

\* Line 214: return migrated_vms.
MPReturn ==
    /\ pc = "mp_loop"
    /\ vm_idx = Len(proxmox_vms)
    /\ pc' = "mp_done"
    /\ result' = PlanResult(migrated_vms)
    /\ UNCHANGED <<first_outcome, vms, nodes, node_to_upgrade, lbvars, mpvars>>

NextMP == MPReturnEmpty \/ MPStart \/ MPPlace \/ MPFail \/ MPReturn

SpecMP == InitMP /\ [][NextMP]_vars

\* ------------------------------------------------ both planners, called twice
\* The caller keeps the outcome of a finished call and calls the same filter
\* again with the same arguments.  Whatever the first call left in its
\* variables is still there; the second call runs the same code.
CallAgain ==
    /\ pc \in {"lb_done", "mp_done", "mp_failed"}
    /\ first_outcome = NoResult
    /\ first_outcome' = result
    /\ result' = NoResult
    /\ pc' = IF pc = "lb_done" THEN "lb_call" ELSE "mp_call"
    /\ UNCHANGED <<vms, nodes, node_to_upgrade, lbvars, mpvars>>

\* Either planner, on VM lists one shorter than MaxVMs and on node lists one
\* shorter than the cluster.
Init ==
    \/ InitLB /\ Len(vms) < MaxVMs
    \/ InitMP /\ Len(nodes) < Cardinality(NodeIds)

Next == NextLB \/ NextMP \/ CallAgain

Spec == Init /\ [][Next]_vars

\* ------------------------------------------------- load_balance_plan: claims
\* The online nodes of the input, read off the node list.
OnlineSet == {nodes[i].node : i \in {j \in DOMAIN nodes : nodes[j].status = "online"}}

\* Number of input VMs hosted on node n.
HostedOn(n) == Cardinality({i \in DOMAIN vms : vms[i].node = n})

\* Plan entries into and out of node n.
MovesInto(plan, n) == Cardinality({k \in DOMAIN plan : plan[k].target_node = n})
MovesOutOf(plan, n) == Cardinality({k \in DOMAIN plan : plan[k].source_node = n})

\* The even share of node n: the VMs hosted on online nodes divided over the
\* online nodes, the first `remainder` nodes in identifier order taking one more.
EvenShare(n) ==
    LET total == Cardinality({i \in DOMAIN vms : vms[i].node \in OnlineSet})
        k == Cardinality(OnlineSet)
    IN (total \div k) + (IF Cardinality({m \in OnlineSet : m < n}) < total % k THEN 1 ELSE 0)

AllVmsOnOnlineNodes == \A i \in DOMAIN vms : vms[i].node \in OnlineSet

\* The input VM list without the VMs hosted on nodes that are not online.
VmsOnOnlineNodes == SelectSeq(vms, LAMBDA vm : vm.node \in OnlineSet)

PosPart(x) == IF x > 0 THEN x ELSE 0

\* C1: when load_balance_plan has returned, for every online node n the input
\* count of n plus the moves into n minus the moves out of n equals the target
\* count the call computed for n.
C1_FinalCountsMeetTargets ==
    pc = "lb_done" =>
        \A n \in DOMAIN target_distribution :
            HostedOn(n) + MovesInto(result.plan, n) - MovesOutOf(result.plan, n)
                = target_distribution[n]

\* C2: load_balance_plan returns the empty plan when the VM list is empty, the
\* node list is empty, or fewer than two nodes have status "online".
C2_EmptyPlanOnVacuousInput ==
    (/\ pc = "lb_done"
     /\ \/ vms = <<>>
        \/ nodes = <<>>
        \/ Cardinality({i \in DOMAIN nodes : nodes[i].status = "online"}) < 2)
    => result = PlanResult(EmptyDict)

\* C2 witness: a returned call on two or more nodes of which exactly one is
\* online, with several VMs all hosted on one node.
C2_Witness ==
    /\ pc = "lb_done"
    /\ Len(nodes) >= 2
    /\ Cardinality(OnlineSet) = 1
    /\ Len(vms) >= 2
    /\ \A i \in DOMAIN vms : vms[i].node \in OnlineSet
    /\ result = PlanResult(EmptyDict)

\* C3: every entry of the rebalance plan, at any moment of the call, has a
\* source_node and a target_node whose status in the node list is "online".
C3_PlanNamesOnlineNodesOnly ==
    \A k \in DOMAIN migration_plan :
        /\ migration_plan[k].source_node \in OnlineSet
        /\ migration_plan[k].target_node \in OnlineSet

\* C3 witness: a non-empty plan has been returned although the node list holds
\* a node that is not online and a VM is hosted on a node that is not online.
C3_Witness ==
    /\ pc = "lb_done"
    /\ DOMAIN result.plan # {}
    /\ \E i \in DOMAIN nodes : nodes[i].status # "online"
    /\ ~AllVmsOnOnlineNodes

\* C4: the returned plan equals the plan of the same input without the VMs
\* hosted on nodes that are not online.
C4_OfflineVmsIgnored ==
    pc = "lb_done" => result.plan = LoadBalancePlan(VmsOnOnlineNodes, nodes)

\* C5: with two or more online nodes, if every VM of the input is stopped the
\* returned plan is empty.
C5_StoppedVmsTriggerNothing ==
    (/\ pc = "lb_done"
     /\ Cardinality(OnlineSet) >= 2
     /\ \A i \in DOMAIN vms : vms[i].status = "stopped")
    => result.plan = EmptyDict

\* C6: when all VMs are on online nodes, the returned plan reaches the even
\* share of every online node with as many entries as the sum of the excesses,
\* takes VMs only from nodes above their share and gives VMs only to nodes
\* below their share.
C6_MinimalMoves ==
    (pc = "lb_done" /\ AllVmsOnOnlineNodes /\ OnlineSet # {}) =>
        /\ Cardinality(DOMAIN result.plan)
             = SumOver([n \in OnlineSet |-> PosPart(HostedOn(n) - EvenShare(n))], OnlineSet)
        /\ \A n \in OnlineSet :
             HostedOn(n) + MovesInto(result.plan, n) - MovesOutOf(result.plan, n)
                = EvenShare(n)
        /\ \A k \in DOMAIN result.plan :
             /\ HostedOn(result.plan[k].source_node) > EvenShare(result.plan[k].source_node)
             /\ HostedOn(result.plan[k].target_node) < EvenShare(result.plan[k].target_node)

\* C6 witness: a returned plan of two or more entries that draws on two
\* overloaded nodes, all VMs being on online nodes.
C6_Witness ==
    /\ pc = "lb_done"
    /\ AllVmsOnOnlineNodes
    /\ \E j, k \in DOMAIN result.plan :
         result.plan[j].source_node # result.plan[k].source_node

\* The node list in every order.
NodeListOrders ==
    {[i \in DOMAIN nodes |-> nodes[p[i]]] : p \in Permutations(DOMAIN nodes)}

\* C19: the target distribution follows the remainder rule.  Once computed, the
\* targets of any two online nodes differ by at most 1, a node with a larger
\* target never has a larger identifier than a node with a smaller target, and
\* the targets are the ones computed from the node list in any other order.
C19_RemainderRule ==
    DOMAIN target_distribution # {} =>
        /\ DOMAIN target_distribution = OnlineSet
        /\ \A n, m \in OnlineSet :
              /\ target_distribution[n] - target_distribution[m] <= 1
              /\ n < m => target_distribution[n] >= target_distribution[m]
        /\ \A ns \in NodeListOrders :
              TargetDistribution(vms, OnlineNodes(ns)) = target_distribution

\* C19 witness: targets that are not all equal, computed from a node list that
\* names an online node before an online node of smaller identifier.
C19_Witness ==
    /\ DOMAIN target_distribution # {}
    /\ \E n, m \in OnlineSet : target_distribution[n] # target_distribution[m]
    /\ \E i, j \in DOMAIN nodes :
         /\ i < j
         /\ nodes[i].status = "online"
         /\ nodes[j].status = "online"
         /\ nodes[i].node > nodes[j].node

\* C20: throughout the matching loop every plan entry of a VM has as
\* source_node the node of that VM in the input and a target_node other than
\* the source_node, and no step overwrites or removes an entry already written.
C20_PlanEntriesStable ==
    [][/\ \A k \in DOMAIN migration_plan :
            /\ k \in DOMAIN migration_plan'
            /\ migration_plan'[k] = migration_plan[k]
       /\ \A k \in DOMAIN migration_plan' :
            /\ \E i \in DOMAIN vms :
                 /\ vms[i].name = k
                 /\ vms[i].node = migration_plan'[k].source_node
            /\ migration_plan'[k].target_node # migration_plan'[k].source_node]_vars

\* C20 witness: a returned plan with two VMs of one source node sent to two
\* targets, the second entry written by a later iteration than the first.
C20_Witness ==
    /\ pc = "lb_done"
    /\ \E k, m \in DOMAIN result.plan :
         /\ result.plan[k].source_node = result.plan[m].source_node
         /\ result.plan[k].target_node # result.plan[m].target_node

\* The VM counts of the online nodes differ from each other by at most one.
CountsAlreadyEven == \A n, m \in OnlineSet : HostedOn(n) - HostedOn(m) <= 1

\* C21: an already even cluster is left alone.  If all VMs are on online nodes
\* and the VM counts of the online nodes differ from each other by at most
\* one, load_balance_plan returns the empty plan.
C21_EvenClusterLeftAlone ==
    (pc = "lb_done" /\ AllVmsOnOnlineNodes /\ CountsAlreadyEven) =>
        result = PlanResult(EmptyDict)

\* --------------------------------------------------- _migration_plan: claims
\* Positions in the input VM list of the VMs to evacuate.
Candidates ==
    {i \in DOMAIN vms : vms[i].node = node_to_upgrade /\ vms[i].status # "stopped"}

\* Positions in the input node list of the nodes other than node_to_upgrade.
OtherNodes == {j \in DOMAIN nodes : nodes[j].node # node_to_upgrade}

MPEnded == pc \in {"mp_done", "mp_failed"}

\* C7: on success the keys of the evacuation plan are exactly the names of the
\* input VMs that are on node_to_upgrade and not stopped.
C7_PlanKeysAreCandidates ==
    pc = "mp_done" =>
        /\ result.kind = "plan"
        /\ DOMAIN result.plan = {vms[i].name : i \in Candidates}

\* C7 witness: a successful call that planned a VM and left another VM of the
\* input (stopped, or hosted elsewhere) out of the plan.
C7_Witness ==
    /\ pc = "mp_done"
    /\ DOMAIN result.plan # {}
    /\ \E i \in DOMAIN vms : vms[i].name \notin DOMAIN result.plan

\* C8: at every moment of the call every target in the evacuation plan is a
\* node of the input node list other than node_to_upgrade, and every placement
\* adds one VM with one target (as many entries as VMs visited).
C8_TargetsAreOtherNodes ==
    /\ \A k \in DOMAIN migrated_vms :
         /\ migrated_vms[k] # node_to_upgrade
         /\ \E j \in DOMAIN nodes : nodes[j].node = migrated_vms[k]
    /\ Cardinality(DOMAIN migrated_vms) = vm_idx
    /\ pc = "mp_done" => \A k \in DOMAIN result.plan :
         /\ result.plan[k] # node_to_upgrade
         /\ \E j \in DOMAIN nodes : nodes[j].node = result.plan[k]

\* C8 witness: a successful non-empty plan on a node list that holds
\* node_to_upgrade itself, placed first in the list.
C8_Witness ==
    /\ pc = "mp_done"
    /\ DOMAIN result.plan # {}
    /\ nodes # <<>>
    /\ nodes[1].node = node_to_upgrade

\* C9: if no VM on node_to_upgrade is in a non-stopped state the call returns
\* the empty plan and raises no error, whatever the other nodes are; if no VM
\* resides on node_to_upgrade, the node descriptors are never read.
C9_NothingToEvacuate ==
    /\ (MPEnded /\ Candidates = {}) => (pc = "mp_done" /\ result = PlanResult(EmptyDict))
    /\ (\A i \in DOMAIN vms : vms[i].node # node_to_upgrade) => ~nodes_read

\* C9 witness: a returned call on a node_to_upgrade that hosts stopped VMs
\* only, with no other node in the node list.
C9_Witness ==
    /\ pc = "mp_done"
    /\ \E i \in DOMAIN vms : vms[i].node = node_to_upgrade
    /\ Candidates = {}
    /\ OtherNodes = {}
    /\ nodes_read

\* Candidate i has a maxcpu above the maxcpu of every other node, or a maxmem
\* above the maxmem of every other node.
ExceedsEveryNode(i) ==
    \/ \A j \in OtherNodes : vms[i].maxcpu > nodes[j].maxcpu
    \/ \A j \in OtherNodes : vms[i].maxmem > nodes[j].maxmem

\* C10: if some candidate VM exceeds every other node in maxcpu or in maxmem,
\* the call fails with the infeasibility error, which names a candidate VM
\* that was not placed, with that VM's cpu and mem.
C10_OversizedVmFails ==
    (MPEnded /\ \E i \in Candidates : ExceedsEveryNode(i)) =>
        /\ pc = "mp_failed"
        /\ result.kind = "AnsibleFilterError"
        /\ \E i \in Candidates :
             /\ result.vm = vms[i].name
             /\ result.cpu = vms[i].cpu
             /\ result.mem = vms[i].mem
             /\ vms[i].name \notin DOMAIN migrated_vms

\* C10 witness: a failed call whose error names a candidate that exceeds every
\* other node only in a maximum: some other node has the cpu and mem available.
C10_Witness ==
    /\ pc = "mp_failed"
    /\ \E i \in Candidates :
         /\ ExceedsEveryNode(i)
         /\ result.vm = vms[i].name
         /\ \E j \in OtherNodes :
              /\ nodes[j].maxcpu - nodes[j].cpu >= vms[i].cpu
              /\ nodes[j].maxmem - nodes[j].mem >= vms[i].mem

\* Node state `resources` satisfies the four capacity bounds for `vm`.
Fits(resources, vm) ==
    /\ resources.available_cpu >= vm.cpu
    /\ resources.available_mem >= vm.mem
    /\ resources.maxcpu >= vm.maxcpu
    /\ resources.maxmem >= vm.maxmem

\* A node is selectable for a VM when it fits and its combined score is positive.
Selectable(resources, vm) ==
    /\ Fits(resources, vm)
    /\ RatGT(CombinedScore(resources, vm), <<0, 1>>)

\* The VM whose turn it is has no selectable node in the working state.
NoSelectableNode ==
    /\ pc = "mp_loop"
    /\ vm_idx < Len(proxmox_vms)
    /\ \A i \in DOMAIN proxmox_nodes :
         ~Selectable(proxmox_nodes[i], proxmox_vms[vm_idx + 1])

\* C11: evacuation planning is all-or-nothing and fail-fast.  When the VM
\* whose turn it is has no selectable node, the very next step ends the call
\* in the error naming that VM, and the call fails for no other reason; the
\* error carries no plan, and once failed the call visits no further VM, makes
\* no further assignment and its outcome stays the error.
C11_AllOrNothingFailFast ==
    [][/\ NoSelectableNode =>
            /\ pc' = "mp_failed"
            /\ result'.kind = "AnsibleFilterError"
            /\ result'.vm = proxmox_vms[vm_idx + 1].name
       /\ (pc # "mp_failed" /\ pc' = "mp_failed") => NoSelectableNode
       /\ pc' = "mp_failed" =>
            /\ result'.kind = "AnsibleFilterError"
            /\ DOMAIN result' = {"kind", "vm", "cpu", "mem"}
            /\ vm_idx' = vm_idx
            /\ migrated_vms' = migrated_vms
            /\ vm_idx' < Len(proxmox_vms')
       /\ pc = "mp_failed" => (pc' = "mp_failed" /\ result' = result)]_vars

\* C11 witness: a failed call that had already assigned an earlier VM when it
\* reached the VM it failed at.
C11_Witness ==
    /\ pc = "mp_failed"
    /\ result.kind = "AnsibleFilterError"
    /\ DOMAIN migrated_vms # {}
    /\ result.vm \notin DOMAIN migrated_vms

\* Two node states have the same cpu and the same mem overcommitment.
SameOvercommitment(a, b) ==
    LET oa == CalculateOvercommitment(a)
        ob == CalculateOvercommitment(b)
    IN /\ oa[1][1] * ob[1][2] = ob[1][1] * oa[1][2]
       /\ oa[2][1] * ob[2][2] = ob[2][1] * oa[2][2]

\* C12: worst fit.  Whenever a VM is placed and two nodes both fit it, have
\* equal overcommitment, and one of them has strictly more available cpu and
\* strictly more available mem than the other, the VM is not assigned to the
\* one with less available capacity, wherever the two stand in the node list.
C12_WorstFit ==
    [][(pc = "mp_loop" /\ vm_idx' = vm_idx + 1) =>
          LET vm == proxmox_vms[vm_idx + 1]
          IN \A a, b \in DOMAIN proxmox_nodes :
                (/\ Fits(proxmox_nodes[a], vm)
                 /\ Fits(proxmox_nodes[b], vm)
                 /\ SameOvercommitment(proxmox_nodes[a], proxmox_nodes[b])
                 /\ proxmox_nodes[a].available_cpu > proxmox_nodes[b].available_cpu
                 /\ proxmox_nodes[a].available_mem > proxmox_nodes[b].available_mem)
                => migrated_vms'[vm.name] # proxmox_nodes[b].node]_vars

\* C12 witness: a single candidate was assigned to a node listed after another
\* node that also fitted it but had strictly less cpu and mem available.
C12_Witness ==
    /\ pc = "mp_done"
    /\ Cardinality(Candidates) = 1
    /\ \E c \in Candidates : \E i, j \in OtherNodes :
         /\ i < j
         /\ result.plan[vms[c].name] = nodes[j].node
         /\ nodes[i].maxcpu - nodes[i].cpu >= vms[c].cpu
         /\ nodes[i].maxmem - nodes[i].mem >= vms[c].mem
         /\ nodes[i].maxcpu >= vms[c].maxcpu
         /\ nodes[i].maxmem >= vms[c].maxmem
         /\ nodes[i].maxcpu - nodes[i].cpu < nodes[j].maxcpu - nodes[j].cpu
         /\ nodes[i].maxmem - nodes[i].mem < nodes[j].maxmem - nodes[j].mem

\* Positions in proxmox_vms of the VMs already assigned to node n.
PlacedOn(n) ==
    {k \in 1..vm_idx : proxmox_vms[k].name \in DOMAIN migrated_vms
                        /\ migrated_vms[proxmox_vms[k].name] = n}

\* The input descriptor of the node with identifier n.
InputNode(n) == nodes[CHOOSE j \in DOMAIN nodes : nodes[j].node = n]

\* C13: candidates are placed in non-increasing order of (mem, cpu), mem
\* first and cpu breaking ties, whatever their order in the input: the VMs
\* assigned so far are the first vm_idx of that order, and when a VM's turn
\* comes every node's available cpu and mem are the input's figures less the
\* cpu and mem of the VMs placed on it before.
C13_HeaviestFirst ==
    pc \in {"mp_loop", "mp_done", "mp_failed"} =>
        /\ {proxmox_vms[k].name : k \in DOMAIN proxmox_vms} = {vms[i].name : i \in Candidates}
        /\ Len(proxmox_vms) = Cardinality(Candidates)
        /\ \A x, y \in DOMAIN proxmox_vms : x < y =>
              \/ proxmox_vms[x].mem > proxmox_vms[y].mem
              \/ /\ proxmox_vms[x].mem = proxmox_vms[y].mem
                 /\ proxmox_vms[x].cpu >= proxmox_vms[y].cpu
        /\ DOMAIN migrated_vms = {proxmox_vms[k].name : k \in 1..vm_idx}
        /\ \A i \in DOMAIN proxmox_nodes :
              LET n == proxmox_nodes[i].node
              IN /\ proxmox_nodes[i].available_cpu =
                      InputNode(n).maxcpu - InputNode(n).cpu
                      - SumOver([k \in PlacedOn(n) |-> proxmox_vms[k].cpu], PlacedOn(n))
                 /\ proxmox_nodes[i].available_mem =
                      InputNode(n).maxmem - InputNode(n).mem
                      - SumOver([k \in PlacedOn(n) |-> proxmox_vms[k].mem], PlacedOn(n))

\* C13 witness: two candidates, the first of the input with less mem and more
\* cpu than the second, were placed in the opposite order, and the node that
\* took the first placement had its cpu reduced when the second VM's turn came.
C13_Witness ==
    /\ pc = "mp_done"
    /\ \E i, j \in Candidates :
         /\ i < j
         /\ vms[i].mem < vms[j].mem
         /\ vms[i].cpu > vms[j].cpu
         /\ proxmox_vms[1].name = vms[j].name
         /\ proxmox_vms[2].name = vms[i].name
         /\ \E k \in DOMAIN proxmox_nodes :
              /\ proxmox_nodes[k].node = result.plan[vms[j].name]
              /\ proxmox_nodes[k].available_cpu <
                   InputNode(proxmox_nodes[k].node).maxcpu - InputNode(proxmox_nodes[k].node).cpu

\* C14: every assignment is feasible against the working resource state at
\* the moment it is made: the chosen node then has available cpu and mem of at
\* least the VM's cpu and mem, and maxcpu and maxmem of at least the VM's
\* maxcpu and maxmem; the bounds are inclusive.
C14_AssignmentsFeasible ==
    [][(pc = "mp_loop" /\ vm_idx' = vm_idx + 1) =>
          LET vm == proxmox_vms[vm_idx + 1]
          IN \E i \in DOMAIN proxmox_nodes :
                /\ proxmox_nodes[i].node = migrated_vms'[vm.name]
                /\ proxmox_nodes[i].available_cpu >= vm.cpu
                /\ proxmox_nodes[i].available_mem >= vm.mem
                /\ proxmox_nodes[i].maxcpu >= vm.maxcpu
                /\ proxmox_nodes[i].maxmem >= vm.maxmem
                /\ proxmox_nodes'[i].available_cpu >= 0
                /\ proxmox_nodes'[i].available_mem >= 0]_vars

\* C14 witness: a second placement on a node whose remaining cpu and mem were
\* exactly the VM's cpu and mem, both used up by the assignment.
C14_Witness ==
    /\ pc = "mp_done"
    /\ Len(proxmox_vms) = 2
    /\ proxmox_vms[2].cpu > 0
    /\ proxmox_vms[2].mem > 0
    /\ result.plan[proxmox_vms[1].name] = result.plan[proxmox_vms[2].name]
    /\ \E i \in DOMAIN proxmox_nodes :
         /\ proxmox_nodes[i].node = result.plan[proxmox_vms[2].name]
         /\ proxmox_nodes[i].available_cpu = 0
         /\ proxmox_nodes[i].available_mem = 0

\* Two records agree on cpu, maxcpu, mem and maxmem.
SameFigures(a, b) ==
    /\ a.cpu = b.cpu
    /\ a.maxcpu = b.maxcpu
    /\ a.mem = b.mem
    /\ a.maxmem = b.maxmem

\* Two or more identical candidates with a positive cpu or mem need, and two
\* or more other nodes, identical in capacity and usage, each able to hold one.
IdenticalVmsIdenticalNodes ==
    /\ Cardinality(Candidates) >= 2
    /\ \A c, e \in Candidates : SameFigures(vms[c], vms[e])
    /\ \A c \in Candidates : vms[c].cpu > 0 \/ vms[c].mem > 0
    /\ Cardinality(OtherNodes) >= 2
    /\ \A i, j \in OtherNodes : SameFigures(nodes[i], nodes[j])
    /\ \A c \in Candidates : \A j \in OtherNodes :
         /\ nodes[j].maxcpu - nodes[j].cpu >= vms[c].cpu
         /\ nodes[j].maxmem - nodes[j].mem >= vms[c].mem
         /\ nodes[j].maxcpu >= vms[c].maxcpu
         /\ nodes[j].maxmem >= vms[c].maxmem

\* C18: worst fit spreads load.  With two or more identical candidates of
\* positive need and identical other nodes, at least two of which can hold one
\* such VM, the first two candidates are both placed, on different nodes, so
\* neither the working plan nor a returned plan has all VMs on one node.
C18_SpreadsIdenticalVms ==
    IdenticalVmsIdenticalNodes =>
        /\ pc = "mp_failed" => vm_idx >= 2
        /\ vm_idx >= 2 =>
              migrated_vms[proxmox_vms[1].name] # migrated_vms[proxmox_vms[2].name]
        /\ pc = "mp_done" =>
              \E k, m \in DOMAIN result.plan : result.plan[k] # result.plan[m]

\* C18 witness: a returned plan for two identical candidates on identical
\* nodes, each of which could have held both VMs.
C18_Witness ==
    /\ pc = "mp_done"
    /\ IdenticalVmsIdenticalNodes
    /\ Cardinality(DOMAIN result.plan) = 2
    /\ \A c \in Candidates : \A j \in OtherNodes :
         nodes[j].maxcpu - nodes[j].cpu >= 2 * vms[c].cpu
         /\ nodes[j].maxmem - nodes[j].mem >= 2 * vms[c].mem

\* Score a is strictly below score b (fractions with positive denominators).
ScoreBelow(a, b) == a[1] * b[2] < b[1] * a[2]

\* Position in the input node list of the node with identifier n.
InputPos(n) == CHOOSE j \in DOMAIN nodes : nodes[j].node = n

\* The nodes (positions in proxmox_nodes) that fit `vm` and whose combined
\* score no fitting node exceeds.
TopScorers(vm) ==
    LET feasible == {i \in DOMAIN proxmox_nodes : Fits(proxmox_nodes[i], vm)}
    IN {i \in feasible : \A j \in feasible :
           ~ScoreBelow(CombinedScore(proxmox_nodes[i], vm),
                       CombinedScore(proxmox_nodes[j], vm))}

\* C22: node selection rule.  For the VM whose turn it is, if some node fits
\* and the maximum combined score among the fitting nodes is above zero, the
\* step assigns the VM to the node that stands first in the input node list
\* among those attaining the maximum; if no node fits, or that maximum is zero
\* or negative, the step assigns nothing and fails the call for that VM.
C22_SelectionRule ==
    [][(pc = "mp_loop" /\ vm_idx < Len(proxmox_vms)) =>
          LET vm == proxmox_vms[vm_idx + 1]
              top == TopScorers(vm)
          IN IF /\ top # {}
                /\ \A i \in top : ScoreBelow(<<0, 1>>, CombinedScore(proxmox_nodes[i], vm))
             THEN /\ pc' = "mp_loop"
                  /\ \E i \in top :
                       /\ migrated_vms'[vm.name] = proxmox_nodes[i].node
                       /\ \A j \in top :
                            InputPos(proxmox_nodes[i].node) <= InputPos(proxmox_nodes[j].node)
             ELSE /\ pc' = "mp_failed"
                  /\ migrated_vms' = migrated_vms
                  /\ result'.kind = "AnsibleFilterError"
                  /\ result'.vm = vm.name]_vars

\* C22 witness: a single candidate had two nodes of equal figures to choose
\* from, the one of larger identifier listed first, and was assigned to it.
C22_Witness ==
    /\ pc = "mp_done"
    /\ Cardinality(Candidates) = 1
    /\ \E c \in Candidates : \E i, j \in OtherNodes :
         /\ i < j
         /\ nodes[i].node > nodes[j].node
         /\ SameFigures(nodes[i], nodes[j])
         /\ result.plan[vms[c].name] = nodes[i].node

\* C23: capacity accounting.  After every step of the call each target node's
\* working available cpu is (maxcpu - cpu) of the input less the cpu of the VMs
\* assigned to it so far, likewise for mem, and neither is negative; a
\* placement lowers the chosen node's available cpu and mem by the VM's cpu
\* and mem and leaves every other node's working state, the chosen node's
\* maxima and list of resident VMs, and the set of target nodes as they were.
C23_CapacityAccounting ==
    [][/\ \A i \in DOMAIN proxmox_nodes' :
            LET r == proxmox_nodes'[i]
                on == {k \in DOMAIN proxmox_vms' :
                          /\ proxmox_vms'[k].name \in DOMAIN migrated_vms'
                          /\ migrated_vms'[proxmox_vms'[k].name] = r.node}
            IN /\ r.available_cpu + SumOver([k \in on |-> proxmox_vms'[k].cpu], on)
                     = InputNode(r.node).maxcpu - InputNode(r.node).cpu
               /\ r.available_mem + SumOver([k \in on |-> proxmox_vms'[k].mem], on)
                     = InputNode(r.node).maxmem - InputNode(r.node).mem
               /\ r.available_cpu >= 0
               /\ r.available_mem >= 0
       /\ (pc = "mp_loop" /\ vm_idx' = vm_idx + 1) =>
            LET vm == proxmox_vms[vm_idx + 1]
            IN /\ DOMAIN proxmox_nodes' = DOMAIN proxmox_nodes
               /\ \A i \in DOMAIN proxmox_nodes :
                    IF proxmox_nodes[i].node = migrated_vms'[vm.name]
                    THEN proxmox_nodes'[i] =
                           [proxmox_nodes[i] EXCEPT
                              !.available_cpu = proxmox_nodes[i].available_cpu - vm.cpu,
                              !.available_mem = proxmox_nodes[i].available_mem - vm.mem]
                    ELSE proxmox_nodes'[i] = proxmox_nodes[i]]_vars

\* C23 witness: the placement loop between two placements, one of two target
\* nodes holding the first VM with its cpu and mem deducted, the other untouched.
C23_Witness ==
    /\ pc = "mp_loop"
    /\ vm_idx = 1
    /\ Len(proxmox_vms) = 2
    /\ Len(proxmox_nodes) = 2
    /\ proxmox_vms[1].cpu > 0
    /\ proxmox_vms[1].mem > 0
    /\ \E i, j \in DOMAIN proxmox_nodes :
         /\ PlacedOn(proxmox_nodes[i].node) = {1}
         /\ PlacedOn(proxmox_nodes[j].node) = {}
         /\ proxmox_nodes[j].available_cpu =
              InputNode(proxmox_nodes[j].node).maxcpu - InputNode(proxmox_nodes[j].node).cpu

\* Node n hosts a VM of the input VM list.
HostsVms(n) == \E i \in DOMAIN vms : vms[i].node = n

\* Two working node states with the same available cpu and mem and the same
\* maxima, both fitting `vm`, the first hosting VMs of the input, the second none.
DenseAndEmptyTwin(a, b, vm) ==
    /\ Fits(a, vm)
    /\ Fits(b, vm)
    /\ a.available_cpu = b.available_cpu
    /\ a.available_mem = b.available_mem
    /\ a.maxcpu = b.maxcpu
    /\ a.maxmem = b.maxmem
    /\ HostsVms(a.node)
    /\ ~HostsVms(b.node)

\* C24: already-dense nodes are penalised.  Of two nodes that fit the VM whose
\* turn it is, with identical availability and maxima, the one that hosts VMs
\* of the input has a strictly lower combined score than the one hosting none,
\* and the VM just placed was not assigned to such a node over its empty twin.
C24_DenseNodesPenalised ==
    /\ (pc = "mp_loop" /\ vm_idx < Len(proxmox_vms)) =>
          \A i, j \in DOMAIN proxmox_nodes :
             DenseAndEmptyTwin(proxmox_nodes[i], proxmox_nodes[j], proxmox_vms[vm_idx + 1])
             => ScoreBelow(CombinedScore(proxmox_nodes[i], proxmox_vms[vm_idx + 1]),
                           CombinedScore(proxmox_nodes[j], proxmox_vms[vm_idx + 1]))
    /\ (pc = "mp_done" /\ Cardinality(Candidates) = 1) =>
          \A c \in Candidates : \A i, j \in OtherNodes :
             (/\ SameFigures(nodes[i], nodes[j])
              /\ nodes[i].maxcpu - nodes[i].cpu >= vms[c].cpu
              /\ nodes[i].maxmem - nodes[i].mem >= vms[c].mem
              /\ nodes[i].maxcpu >= vms[c].maxcpu
              /\ nodes[i].maxmem >= vms[c].maxmem
              /\ HostsVms(nodes[i].node)
              /\ ~HostsVms(nodes[j].node))
             => result.plan[vms[c].name] # nodes[i].node

CallEnded == pc \in {"lb_done", "mp_done", "mp_failed"}

C17_Terminates ==
    /\ vm_idx <= Len(proxmox_vms)
    /\ overload_idx <= Len(overloaded_nodes)
    /\ underload_idx <= Len(underloaded_nodes)
    /\ (pc = "lb_loop" /\ LBLoopCond(LBState)) =>
          LET excess == overloaded_nodes[overload_idx + 1][2]
              deficit == underloaded_nodes[underload_idx + 1][2]
              after == LBStep(vms, LBState)
              added == DOMAIN after.migration_plan \ DOMAIN migration_plan
          IN /\ Cardinality(added) = IF excess <= deficit THEN excess ELSE deficit
             /\ Cardinality(added) >= 1
             /\ after.overload_idx >= overload_idx
             /\ after.underload_idx >= underload_idx
             /\ after.overload_idx + after.underload_idx > overload_idx + underload_idx

\* C17 witness: the matching loop after an iteration that advanced one index
\* and left the other in place, with a further iteration due.
C17_Witness ==
    /\ pc = "lb_loop"
    /\ LBLoopCond(LBState)
    /\ overload_idx + underload_idx = 1
    /\ DOMAIN migration_plan # {}

====
